---- MODULE Spec2Model ----
(***************************************************************************)
(* Case-duration histogram binning of gui/overview_screen.py:              *)
(* compute_binned_distribution_case_durations with its helpers             *)
(* get_potential_extra_bins and choose_extra_bins, run against a data      *)
(* model that answers one quantile query and one interval-count query.     *)
(*                                                                         *)
(* The quantile answers are numpy int64 scalars (DataFrame.values[0]), so  *)
(* a division by zero either yields inf/nan (true division) or 0 (floor    *)
(* division) with a RuntimeWarning, or raises when the numpy error state   *)
(* is "raise".  Both outcomes are modelled.                                *)
(*                                                                         *)
(* Spec runs the whole computation on bounded inputs.  SpecChoose runs     *)
(* choose_extra_bins alone, one loop iteration per step, on bounded pools. *)
(***************************************************************************)
EXTENDS Integers, Sequences, FiniteSets, TLC

\* ---- bounds of the model ----
MaxVal == 9          \* sample values of the bounded inputs lie in 0..MaxVal
MaxBins == 6         \* num_bins of the bounded inputs lies in 0..MaxBins
MaxDistinct == 3     \* the bounded samples hold at most MaxDistinct distinct durations
MaxPool == 3         \* pools handed to choose_extra_bins alone hold 0..MaxPool candidates
MaxPicks == 7        \* choose_extra_bins alone is asked for -1..MaxPicks bins
MaxWidth == 2        \* candidates handed to choose_extra_bins alone are 1..MaxWidth wide

\* ---- OverviewScreen.create_overview_screen asks for 10 bins ----
OverviewNumBins == 10

VARIABLES
    pc,                 \* position of the call: start, await_quantiles, await_counts, done, failed
    num_bins,           \* argument num_bins
    sample,             \* the case durations held by the data model (set of integers)
    quantile_answers,   \* what the data model answers to the quantile query
    queries,            \* queries sent to the data model so far, in order
    min_val, max_val, lower_end, upper_end,
    bin_width, bins_within, diff_bins, upper_end_within,
    potential_lowers, potential_uppers,
    extra_bins_lower, extra_bins_upper,
    bins,               \* the bin list passed to get_num_cases_with_durations
    df_histogram,       \* the returned table: sequence of [range, cases]
    error,              \* "none" or the exception the call ended in
    div_by_zero,        \* TRUE once a division by zero has been evaluated
    \* a call of choose_extra_bins on its own
    c_pc,               \* idle, call, loop, returned, error
    c_num_bins,         \* argument num_bins
    c_lowers0, c_uppers0,       \* arguments potential_lowers, potential_uppers
    c_lowers, c_uppers,         \* potential_lowers, potential_uppers as the loop shrinks them
    c_extra_lower, c_extra_upper,   \* extra_bins_lower, extra_bins_upper
    c_take_from_upper,  \* take_from_upper
    c_i,                \* iterations of the for loop completed
    c_picks,            \* the side of every pick so far, in order
    c_forced            \* TRUE once a pick was made while the other pool was empty

vars == <<pc, num_bins, sample, quantile_answers, queries,
          min_val, max_val, lower_end, upper_end,
          bin_width, bins_within, diff_bins, upper_end_within,
          potential_lowers, potential_uppers,
          extra_bins_lower, extra_bins_upper,
          bins, df_histogram, error, div_by_zero,
          c_pc, c_num_bins, c_lowers0, c_uppers0, c_lowers, c_uppers,
          c_extra_lower, c_extra_upper, c_take_from_upper, c_i, c_picks, c_forced>>

cvars == <<c_pc, c_num_bins, c_lowers0, c_uppers0, c_lowers, c_uppers,
           c_extra_lower, c_extra_upper, c_take_from_upper, c_i, c_picks, c_forced>>

mainvars == <<pc, num_bins, sample, quantile_answers, queries,
              min_val, max_val, lower_end, upper_end,
              bin_width, bins_within, diff_bins, upper_end_within,
              potential_lowers, potential_uppers,
              extra_bins_lower, extra_bins_upper,
              bins, df_histogram, error, div_by_zero>>

locals == <<min_val, max_val, lower_end, upper_end,
            bin_width, bins_within, diff_bins, upper_end_within,
            potential_lowers, potential_uppers,
            extra_bins_lower, extra_bins_upper, bins>>

\* ---- arithmetic helpers ----
SetMin(S) == CHOOSE x \in S : \A y \in S : x <= y
SetMax(S) == CHOOSE x \in S : \A y \in S : x >= y

\* Python's // on integers (floor), divisor non-zero
FloorDiv(a, b) == IF b > 0 THEN a \div b ELSE (0 - a) \div (0 - b)

\* int(np.ceil(a / b)), divisor non-zero
CeilDiv(a, b) == 0 - FloorDiv(0 - a, b)

Low(b) == b[1]
High(b) == b[2]


\* ---- get_potential_extra_bins ----
\* variant: the candidate's high bound misses the - 1
LowerCandidate_NoMinusOne(i, lower, width) == <<lower - i * width, lower - (i - 1) * width>>

LowerCandidate(i, lower, width) == <<lower - i * width, lower - (i - 1) * width - 1>>

\* variant: the candidate's low bound misses the + 1
UpperCandidate_NoPlusOne(i, upper, width) == <<upper + (i - 1) * width, upper + i * width>>

UpperCandidate(i, upper, width) == <<upper + 1 + (i - 1) * width, upper + i * width>>

\* variant: the loop body runs at least once
LoopIndices_AtLeastOnce(n) == [i \in 1..(IF n <= 0 THEN 1 ELSE n) |-> i]

\* the loop indices 1..n of range(1, n + 1), in order
LoopIndices(n) == IF n <= 0 THEN <<>> ELSE [i \in 1..n |-> i]

\* variant: a lower candidate may start at min_val itself
PotentialLowers_ReachesMin(lower, width, n, minv) ==
    LET Fits(i) == lower - i * width >= minv
        idx == SelectSeq(LoopIndices(n), Fits)
    IN  [k \in 1..Len(idx) |-> LowerCandidate(idx[k], lower, width)]

PotentialLowers(lower, width, n, minv) ==
    LET Fits(i) == lower - i * width > minv
        idx == SelectSeq(LoopIndices(n), Fits)
    IN  [k \in 1..Len(idx) |-> LowerCandidate(idx[k], lower, width)]

PotentialUppers(upper, width, n, maxv) ==
    LET Fits(i) == upper + i * width < maxv
        idx == SelectSeq(LoopIndices(n), Fits)
    IN  [k \in 1..Len(idx) |-> UpperCandidate(idx[k], upper, width)]

\* ---- choose_extra_bins ----
\* variant: the alternation starts with the lower pool
InitialTakeFromUpper_False == FALSE

\* line 335
InitialTakeFromUpper == TRUE

\* variant: the lower pool is preferred whenever it is non-empty
TakesFromLower_IgnoresFlag(pl, pu, take_from_upper) == Len(pl) > 0

\* variant: no fallback to the lower pool when the upper pool is empty
TakesFromLower_NoFallback(pl, pu, take_from_upper) == Len(pl) > 0 /\ ~take_from_upper

\* variant: the flag alone decides, whatever the pools hold
TakesFromLower_FlagOnly(pl, pu, take_from_upper) == ~take_from_upper

\* the condition of lines 339-343
TakesFromLower(pl, pu, take_from_upper) ==
    (Len(pl) > 0 /\ Len(pu) = 0) \/ (Len(pl) > 0 /\ ~take_from_upper)

\* one pass of the for loop with `left` iterations still to run
RECURSIVE ChooseLoop(_, _, _, _, _, _)
ChooseLoop(left, pl, pu, el, eu, take_from_upper) ==
    IF left <= 0 THEN [lower |-> el, upper |-> eu]
    ELSE IF Len(pl) = 0 /\ Len(pu) = 0 THEN [lower |-> el, upper |-> eu]
    ELSE IF TakesFromLower(pl, pu, take_from_upper)
         THEN ChooseLoop(left - 1, SubSeq(pl, 1, Len(pl) - 1), pu,
                         <<pl[Len(pl)]>> \o el, eu, TRUE)
         ELSE ChooseLoop(left - 1, pl, Tail(pu),
                         el, Append(eu, pu[1]), FALSE)

\* variant: every candidate of both pools is returned
ChooseExtraBins_TakesAll(pl, pu, n) == [lower |-> pl, upper |-> pu]

ChooseExtraBins(pl, pu, n) ==
    IF Len(pl \o pu) = 0 THEN [lower |-> <<>>, upper |-> <<>>]
    ELSE ChooseLoop(n, pl, pu, <<>>, <<>>, InitialTakeFromUpper)

\* ---- the arithmetic of compute_binned_distribution_case_durations ----
\* a / w < n for numpy int64 a and int w: a / 0 is inf or nan, never below n
TrueDivLess(a, w, n) ==
    IF w = 0 THEN FALSE
    ELSE IF w > 0 THEN a < n * w
    ELSE a > n * w

\* variant: the width is one more than the ceiling
InitialBinWidth_PlusOne(lower, upper, n) == CeilDiv(upper - lower, n - 2) + 1

InitialBinWidth(lower, upper, n) == CeilDiv(upper - lower, n - 2)

\* variant: the edge correction of line 383-384 is left out
EdgeCorrection_Never(w, minv, maxv, n) == w

\* variant: the correction takes off two
EdgeCorrection_Twice(w, minv, maxv, n) ==
    IF TrueDivLess(maxv - minv + 1, w, n) /\ w > 1 THEN w - 2 ELSE w

\* variant: the correction misses the bin_width > 1 condition
EdgeCorrection_NoFloor(w, minv, maxv, n) ==
    IF TrueDivLess(maxv - minv + 1, w, n) THEN w - 1 ELSE w

EdgeCorrection(w, minv, maxv, n) ==
    IF TrueDivLess(maxv - minv + 1, w, n) /\ w > 1 THEN w - 1 ELSE w

\* variant: the quotient is rounded up
BinsWithin_RoundsUp(lower, upper, w) ==
    IF w = 0 THEN 0 ELSE CeilDiv(upper - lower + 1, w)

\* numpy integer floor division by zero yields 0
BinsWithin(lower, upper, w) ==
    IF w = 0 THEN 0 ELSE FloorDiv(upper - lower + 1, w)

CoreBins(lower, w, k) ==
    IF k <= 0 THEN <<>>
    ELSE [i \in 1..k |-> <<lower + (i - 1) * w, lower + i * w - 1>>]

UpperEndWithin(lower, w, k) == lower + w * k - 1

MinInnerBin(el, lower) == IF Len(el) > 0 THEN Low(el[1]) ELSE lower
MaxInnerBin(eu, upper_within) == IF Len(eu) > 0 THEN High(eu[Len(eu)]) ELSE upper_within

\* variant: the lower outlier bin starts at the inner edge instead of min_val
MinBin_FromInnerEdge(minv, min_inner_bin) == <<min_inner_bin - 1, min_inner_bin - 1>>

MinBin(minv, min_inner_bin) == <<minv, min_inner_bin - 1>>
MaxBin(max_inner_bin, maxv) == <<max_inner_bin + 1, maxv>>

AssembleBins(min_bin, el, core, eu, max_bin) ==
    <<min_bin>> \o el \o core \o eu \o <<max_bin>>

\* ---- get_num_cases_with_durations against an exact data model ----
\* variant: the condition misses the upper bound of the range
Cases_IgnoresHigh(S, b) == Cardinality({v \in S : v >= Low(b)})

Cases(S, b) == Cardinality({v \in S : v >= Low(b) /\ v <= High(b)})

Histogram(S, bs) == [i \in 1..Len(bs) |-> [range |-> bs[i], cases |-> Cases(S, bs[i])]]

RECURSIVE SumCases(_)
SumCases(df) == IF Len(df) = 0 THEN 0 ELSE Head(df).cases + SumCases(Tail(df))


\* ---- the quantiles requested at lines 367-370, as fractions <<num, den>> ----
LowerPercentile(n) == <<1, 2 * n>>
UpperPercentile(n) == <<2 * n - 1, 2 * n>>
MinPercentile == <<0, 1>>
MaxPercentile == <<1, 1>>

\* lines 371-375: one query for the four quantiles
QuantileQuery(n) ==
    <<[kind |-> "quantile",
       quantiles |-> <<LowerPercentile(n), UpperPercentile(n), MinPercentile, MaxPercentile>>]>>

\* variant: one count query per bin instead of one for the whole list
CountQuery_PerBin(bs) == [i \in 1..Len(bs) |-> [kind |-> "count", intervals |-> <<bs[i]>>]]

\* line 411: one query for the whole bin list
CountQuery(bs) == <<[kind |-> "count", intervals |-> bs]>>

\* ---- initial states ----
BoundedInputs ==
    /\ num_bins \in 0..MaxBins
    /\ sample \in {S \in SUBSET (0..MaxVal) : S /= {} /\ Cardinality(S) <= MaxDistinct}
    /\ quantile_answers \in
         {[min |-> SetMin(sample), lower |-> l, upper |-> u, max |-> SetMax(sample)] :
            l \in SetMin(sample)..SetMax(sample), u \in SetMin(sample)..SetMax(sample)}
    /\ quantile_answers.lower <= quantile_answers.upper
    \* num_bins = 1 asks for the 0.5 quantile twice
    /\ num_bins = 1 => quantile_answers.lower = quantile_answers.upper

\* the durations 1..100 behind the overview screen's call, with the 1/20 and
\* 19/20 quantiles answered as 5 and 95
OverviewScenario ==
    /\ num_bins = OverviewNumBins
    /\ sample = 1..100
    /\ quantile_answers = [min |-> 1, lower |-> 5, upper |-> 95, max |-> 100]

\* no call of choose_extra_bins on its own is in progress
ChooseIdle ==
    /\ c_pc = "idle"
    /\ c_num_bins = 0
    /\ c_lowers0 = <<>> /\ c_uppers0 = <<>>
    /\ c_lowers = <<>> /\ c_uppers = <<>>
    /\ c_extra_lower = <<>> /\ c_extra_upper = <<>>
    /\ c_take_from_upper = TRUE
    /\ c_i = 0
    /\ c_picks = <<>>
    /\ c_forced = FALSE

Init ==
    /\ pc = "start"
    /\ ChooseIdle
    /\ (BoundedInputs \/ OverviewScenario)
    /\ queries = <<>>
    /\ min_val = 0 /\ max_val = 0 /\ lower_end = 0 /\ upper_end = 0
    /\ bin_width = 0 /\ bins_within = 0 /\ diff_bins = 0 /\ upper_end_within = 0
    /\ potential_lowers = <<>> /\ potential_uppers = <<>>
    /\ extra_bins_lower = <<>> /\ extra_bins_upper = <<>>
    /\ bins = <<>>
    /\ df_histogram = <<>>
    /\ error = "none"
    /\ div_by_zero = FALSE

\* ---- actions ----
\* lines 367-375: the percentiles and the quantile query
Call ==
    /\ pc = "start"
    /\ IF num_bins = 0
       THEN \* 1 / (2 * num_bins) on Python ints
            /\ pc' = "failed"
            /\ error' = "ZeroDivisionError"
            /\ div_by_zero' = TRUE
            /\ UNCHANGED queries
       ELSE /\ pc' = "await_quantiles"
            /\ queries' = queries \o QuantileQuery(num_bins)
            /\ UNCHANGED <<error, div_by_zero>>
    /\ UNCHANGED <<num_bins, sample, quantile_answers, locals, df_histogram, cvars>>

\* variant: a failed quantile query is sent again
QuantilesFail_Retries ==
    /\ pc = "await_quantiles"
    /\ Len(queries) < 2
    /\ queries' = queries \o QuantileQuery(num_bins)
    /\ error' = "UpstreamQueryError"
    /\ UNCHANGED <<pc, num_bins, sample, quantile_answers, locals,
                   df_histogram, div_by_zero, cvars>>

\* the data model fails on the quantile query; the exception leaves the function
QuantilesFail ==
    /\ pc = "await_quantiles"
    /\ pc' = "failed"
    /\ error' = "UpstreamQueryError"
    /\ UNCHANGED <<num_bins, sample, quantile_answers, queries, locals,
                   df_histogram, div_by_zero, cvars>>

\* lines 376-411: the quantiles arrive, the bins are laid out, the count query is sent
QuantilesReturn ==
    /\ pc = "await_quantiles"
    /\ min_val' = quantile_answers.min
    /\ max_val' = quantile_answers.max
    /\ lower_end' = quantile_answers.lower
    /\ upper_end' = quantile_answers.upper
    /\ \E np_errstate \in {"warn", "raise"} :
       IF num_bins = 2
       THEN \* line 382 divides by num_bins - 2 = 0: inf or nan, int() raises
            /\ pc' = "failed"
            /\ error' = IF np_errstate = "raise" THEN "FloatingPointError"
                        ELSE IF upper_end' > lower_end' THEN "OverflowError"
                        ELSE "ValueError"
            /\ div_by_zero' = TRUE
            /\ UNCHANGED <<bin_width, bins_within, diff_bins, upper_end_within,
                           potential_lowers, potential_uppers,
                           extra_bins_lower, extra_bins_upper, bins, queries>>
       ELSE LET w0 == InitialBinWidth(lower_end', upper_end', num_bins)
            IN  IF w0 = 0 /\ np_errstate = "raise"
                THEN \* line 383 divides by bin_width = 0
                     /\ pc' = "failed"
                     /\ error' = "FloatingPointError"
                     /\ div_by_zero' = TRUE
                     /\ bin_width' = w0
                     /\ UNCHANGED <<bins_within, diff_bins, upper_end_within,
                                    potential_lowers, potential_uppers,
                                    extra_bins_lower, extra_bins_upper, bins, queries>>
                ELSE /\ bin_width' = EdgeCorrection(w0, min_val', max_val', num_bins)
                     /\ bins_within' = BinsWithin(lower_end', upper_end', bin_width')
                     /\ diff_bins' = num_bins - 2 - bins_within'
                     /\ upper_end_within' = UpperEndWithin(lower_end', bin_width', bins_within')
                     /\ potential_lowers' =
                          PotentialLowers(lower_end', bin_width', diff_bins', min_val')
                     /\ potential_uppers' =
                          PotentialUppers(upper_end_within', bin_width', diff_bins', max_val')
                     /\ LET chosen == ChooseExtraBins(potential_lowers', potential_uppers',
                                                      diff_bins')
                        IN  /\ extra_bins_lower' = chosen.lower
                            /\ extra_bins_upper' = chosen.upper
                     /\ bins' = AssembleBins(
                          MinBin(min_val', MinInnerBin(extra_bins_lower', lower_end')),
                          extra_bins_lower',
                          CoreBins(lower_end', bin_width', bins_within'),
                          extra_bins_upper',
                          MaxBin(MaxInnerBin(extra_bins_upper', upper_end_within'), max_val'))
                     /\ div_by_zero' = (w0 = 0)
                     /\ queries' = queries \o CountQuery(bins')
                     /\ pc' = "await_counts"
                     /\ UNCHANGED error
    /\ UNCHANGED <<num_bins, sample, quantile_answers, df_histogram, cvars>>

\* the data model fails on the count query
CountsFail ==
    /\ pc = "await_counts"
    /\ pc' = "failed"
    /\ error' = "UpstreamQueryError"
    /\ UNCHANGED <<num_bins, sample, quantile_answers, queries, locals,
                   df_histogram, div_by_zero, cvars>>

\* lines 411-417: the counts arrive and the table is returned
CountsReturn ==
    /\ pc = "await_counts"
    /\ df_histogram' = Histogram(sample, bins)
    /\ pc' = "done"
    /\ UNCHANGED <<num_bins, sample, quantile_answers, queries, locals,
                   error, div_by_zero, cvars>>

Next ==
    \/ Call
    \/ QuantilesFail
    \/ QuantilesReturn
    \/ CountsFail
    \/ CountsReturn

Spec == Init /\ [][Next]_vars

\* ---- choose_extra_bins on its own, one loop iteration per step ----
\* pools as get_potential_extra_bins lays them out around a core of one bin
ChooseInputs ==
    /\ c_num_bins \in (0 - 1)..MaxPicks
    /\ \E a \in 0..MaxPool, b \in 0..MaxPool, w \in 1..MaxWidth :
         /\ c_lowers0 = [k \in 1..a |-> LowerCandidate(k, MaxPool * MaxWidth, w)]
         /\ c_uppers0 = [k \in 1..b |-> UpperCandidate(k, MaxPool * MaxWidth + w - 1, w)]

InitChoose ==
    /\ pc = "idle"
    /\ num_bins = 0
    /\ sample = {}
    /\ quantile_answers = [min |-> 0, lower |-> 0, upper |-> 0, max |-> 0]
    /\ queries = <<>>
    /\ min_val = 0 /\ max_val = 0 /\ lower_end = 0 /\ upper_end = 0
    /\ bin_width = 0 /\ bins_within = 0 /\ diff_bins = 0 /\ upper_end_within = 0
    /\ potential_lowers = <<>> /\ potential_uppers = <<>>
    /\ extra_bins_lower = <<>> /\ extra_bins_upper = <<>>
    /\ bins = <<>>
    /\ df_histogram = <<>>
    /\ error = "none"
    /\ div_by_zero = FALSE
    /\ c_pc = "call"
    /\ ChooseInputs
    /\ c_lowers = c_lowers0 /\ c_uppers = c_uppers0
    /\ c_extra_lower = <<>> /\ c_extra_upper = <<>>
    /\ c_take_from_upper = TRUE
    /\ c_i = 0
    /\ c_picks = <<>>
    /\ c_forced = FALSE

\* lines 329-335: the early return on two empty pools, else the loop set-up
ChooseEnter ==
    /\ c_pc = "call"
    /\ IF Len(c_lowers \o c_uppers) = 0
       THEN c_pc' = "returned"
       ELSE c_pc' = "loop"
    /\ c_extra_lower' = <<>>
    /\ c_extra_upper' = <<>>
    /\ c_take_from_upper' = InitialTakeFromUpper
    /\ c_i' = 0
    /\ UNCHANGED <<c_num_bins, c_lowers0, c_uppers0, c_lowers, c_uppers, c_picks,
                   c_forced, mainvars>>

\* lines 336-350: one iteration of the for loop
ChooseIterate ==
    /\ c_pc = "loop"
    /\ c_i < c_num_bins
    /\ c_i' = c_i + 1
    /\ IF Len(c_lowers) = 0 /\ Len(c_uppers) = 0
       THEN \* break
            /\ c_pc' = "returned"
            /\ UNCHANGED <<c_lowers, c_uppers, c_extra_lower, c_extra_upper,
                           c_take_from_upper, c_picks, c_forced>>
       ELSE IF TakesFromLower(c_lowers, c_uppers, c_take_from_upper) /\ Len(c_lowers) = 0
       THEN \* potential_lowers[-1] on an empty list
            /\ c_pc' = "error"
            /\ UNCHANGED <<c_lowers, c_uppers, c_extra_lower, c_extra_upper,
                           c_take_from_upper, c_picks, c_forced>>
       ELSE IF TakesFromLower(c_lowers, c_uppers, c_take_from_upper)
       THEN /\ c_extra_lower' = <<c_lowers[Len(c_lowers)]>> \o c_extra_lower
            /\ c_lowers' = SubSeq(c_lowers, 1, Len(c_lowers) - 1)
            /\ c_take_from_upper' = TRUE
            /\ c_picks' = Append(c_picks, "lower")
            /\ c_forced' = (c_forced \/ Len(c_uppers) = 0)
            /\ UNCHANGED <<c_pc, c_uppers, c_extra_upper>>
       ELSE IF Len(c_uppers) = 0
       THEN \* potential_uppers[0] on an empty list
            /\ c_pc' = "error"
            /\ UNCHANGED <<c_lowers, c_uppers, c_extra_lower, c_extra_upper,
                           c_take_from_upper, c_picks, c_forced>>
       ELSE /\ c_extra_upper' = Append(c_extra_upper, c_uppers[1])
            /\ c_uppers' = Tail(c_uppers)
            /\ c_take_from_upper' = FALSE
            /\ c_picks' = Append(c_picks, "upper")
            /\ c_forced' = (c_forced \/ Len(c_lowers) = 0)
            /\ UNCHANGED <<c_pc, c_lowers, c_extra_lower>>
    /\ UNCHANGED <<c_num_bins, c_lowers0, c_uppers0, mainvars>>

\* line 351: the loop has run num_bins times
ChooseReturn ==
    /\ c_pc = "loop"
    /\ c_i >= c_num_bins
    /\ c_pc' = "returned"
    /\ UNCHANGED <<c_num_bins, c_lowers0, c_uppers0, c_lowers, c_uppers,
                   c_extra_lower, c_extra_upper, c_take_from_upper, c_i, c_picks,
                   c_forced, mainvars>>

NextChoose ==
    \/ ChooseEnter
    \/ ChooseIterate
    \/ ChooseReturn

SpecChoose == InitChoose /\ [][NextChoose]_vars

\* the stepwise loop returns what ChooseExtraBins computes in one go
ChooseStepsAgree ==
    c_pc = "returned" =>
        ChooseExtraBins(c_lowers0, c_uppers0, c_num_bins)
            = [lower |-> c_extra_lower, upper |-> c_extra_upper]

TypeOK ==
    /\ pc \in {"start", "await_quantiles", "await_counts", "done", "failed"}
    /\ error \in {"none", "ZeroDivisionError", "OverflowError", "ValueError",
                  "FloatingPointError", "UpstreamQueryError"}
    /\ (pc = "failed") = (error /= "none")
    /\ Len(queries) <= 2


\* ---- properties ----
\* the call has laid out a bin list and handed it to the count query
BinsProduced == pc \in {"await_counts", "done"}

Contiguous(bs) == \A i \in 1..(Len(bs) - 1) : High(bs[i]) + 1 = Low(bs[i + 1])

CoveredOnce(S, bs) ==
    \A v \in S : Cardinality({i \in 1..Len(bs) : Low(bs[i]) <= v /\ v <= High(bs[i])}) = 1

\* C1: for num_bins >= 3 and ordered integer quantile answers, the bin list
\* passed to the count query has exactly num_bins entries.
C1_ExactlyNumBins ==
    (BinsProduced /\ num_bins >= 3) => Len(bins) = num_bins

\* C2: for num_bins >= 3 every adjacent pair of the final bin list satisfies
\* bin[i].high + 1 = bin[i+1].low.
C2_BinsContiguous ==
    (BinsProduced /\ num_bins >= 3) => Contiguous(bins)

\* C3: with an exact accessor the counts of the returned table sum to the
\* sample size, every sample value being counted in exactly one bin.
C3_CountsSumToSampleSize ==
    pc = "done" =>
        /\ SumCases(df_histogram) = Cardinality(sample)
        /\ CoveredOnce(sample, bins)

\* C4: the final bin list is ordered by strictly increasing low bound (lower
\* outlier, lower extras ascending, core, upper extras ascending, upper outlier).
C4_StrictlyIncreasingLow ==
    (BinsProduced /\ num_bins >= 3) => \A i \in 1..(Len(bins) - 1) : Low(bins[i]) < Low(bins[i + 1])

\* C5: whenever a bin list is produced, the first bin's low is min_val (the
\* 0.0 quantile) and the last bin's high is max_val (the 1.0 quantile).
C5_EndsAtMinAndMax ==
    BinsProduced =>
        /\ Low(bins[1]) = quantile_answers.min
        /\ High(bins[Len(bins)]) = quantile_answers.max

C5_Witness ==
    /\ pc = "done"
    /\ num_bins >= 3
    /\ bin_width >= 1
    /\ min_val < lower_end
    /\ upper_end < max_val
    /\ Len(extra_bins_lower) > 0
    /\ Len(extra_bins_upper) > 0

\* C6: a call with num_bins < 3 fails with InvalidConfiguration before any bin
\* list is produced and before the count query is issued.
C6_InvalidConfigurationBelowThree ==
    (num_bins < 3 /\ pc \in {"await_counts", "done", "failed"}) =>
        /\ pc = "failed"
        /\ error = "InvalidConfiguration"
        /\ bins = <<>>
        /\ \A i \in 1..Len(queries) : queries[i].kind /= "count"

\* C7: for num_bins >= 3, bin_width >= 1 wherever it is used as a divisor or
\* as a bin step, also when upper_end = lower_end.
C7_BinWidthAtLeastOne ==
    (num_bins >= 3 /\ (BinsProduced \/ error = "FloatingPointError")) => bin_width >= 1

\* C8: for a sample whose values are all equal and num_bins >= 3 the call
\* completes without a division by zero and produces num_bins bins.
C8_AllEqualSample ==
    (/\ num_bins >= 3
     /\ Cardinality(sample) = 1
     /\ pc \in {"await_counts", "done", "failed"}
     /\ error /= "UpstreamQueryError") =>
        /\ ~div_by_zero
        /\ pc /= "failed"
        /\ Len(bins) = num_bins

\* C9: for the sample 1..100 with num_bins = 10 and quantile answers 1, 5, 95,
\* 100 the result has exactly 10 contiguous bins covering [1,100] whose counts
\* sum to 100.
C9_OverviewScenario ==
    (OverviewScenario /\ pc = "done") =>
        /\ Len(df_histogram) = 10
        /\ Len(bins) = 10
        /\ Contiguous(bins)
        /\ Low(bins[1]) = 1
        /\ High(bins[Len(bins)]) = 100
        /\ \A i \in 1..Len(bins) : df_histogram[i].range = bins[i]
        /\ \A i \in 1..Len(bins) :
              df_histogram[i].cases = High(bins[i]) - Low(bins[i]) + 1
        /\ SumCases(df_histogram) = 100

C9_Witness == OverviewScenario /\ pc = "done" /\ Len(df_histogram) > 0

\* C10: every bin other than the first and the last has width bin_width:
\* high - low + 1 = bin_width for core bins and chosen extra bins on both sides.
C10_InnerBinsEqualWidth ==
    BinsProduced =>
        \A i \in 2..(Len(bins) - 1) : High(bins[i]) - Low(bins[i]) + 1 = bin_width

C10_Witness ==
    /\ pc = "done"
    /\ bin_width >= 2
    /\ bins_within > 0
    /\ Len(extra_bins_lower) + Len(extra_bins_upper) > 0


QueryKinds == [i \in 1..Len(queries) |-> queries[i].kind]

\* C12: in choose_extra_bins, for pools of equal size, or when no pick had
\* to be taken because the other pool was empty, the numbers of bins chosen
\* from the upper and from the lower pool differ by at most 1.
C12_BalancedPicks ==
    (c_pc \in {"loop", "returned"} /\ (Len(c_lowers0) = Len(c_uppers0) \/ ~c_forced)) =>
        /\ Len(c_extra_upper) - Len(c_extra_lower) <= 1
        /\ Len(c_extra_lower) - Len(c_extra_upper) <= 1

C12_Witness ==
    /\ c_pc = "returned"
    /\ Len(c_lowers0) = Len(c_uppers0)
    /\ Len(c_extra_lower) >= 1
    /\ Len(c_extra_upper) = Len(c_extra_lower) + 1

\* C13: a run sends one quantile query and then one count query, in that
\* order; the count query is sent only once the quantiles are back, and
\* neither query is sent twice.
C13_QueryOrder ==
    /\ QueryKinds \in {<<>>, <<"quantile">>, <<"quantile", "count">>}
    /\ pc = "start" => queries = <<>>
    /\ pc = "await_quantiles" => QueryKinds = <<"quantile">>
    /\ BinsProduced =>
          /\ QueryKinds = <<"quantile", "count">>
          /\ Len(queries[1].quantiles) = 4
          /\ queries[2].intervals = bins

C13_Witness == pc = "done" /\ Len(queries) = 2 /\ Len(bins) >= 3

\* C14: when the accessor fails on a query the call ends in that error, the
\* query is not sent again, no query follows a failed quantile query, and no
\* table is returned.
C14_UpstreamFailureEndsCall ==
    error = "UpstreamQueryError" =>
        /\ pc = "failed"
        /\ df_histogram = <<>>
        /\ bins = <<>> => QueryKinds = <<"quantile">>
        /\ bins /= <<>> => QueryKinds = <<"quantile", "count">>

C14_Witness == error = "UpstreamQueryError" /\ pc = "failed" /\ bins = <<>> /\ Len(queries) = 1

\* the condition of line 383 held for the width of line 382
EdgeCorrectionFired ==
    LET w0 == InitialBinWidth(lower_end, upper_end, num_bins)
    IN  w0 > 1 /\ TrueDivLess(max_val - min_val + 1, w0, num_bins)

\* C15: whenever the edge correction fires (bin_width decremented by 1), the
\* bin list has at least num_bins entries: bins_within >= num_bins - 2.
C15_EdgeCorrectionGivesEnoughBins ==
    (BinsProduced /\ num_bins >= 3 /\ EdgeCorrectionFired) =>
        /\ bin_width = InitialBinWidth(lower_end, upper_end, num_bins) - 1
        /\ bins_within >= num_bins - 2
        /\ Len(bins) >= num_bins

C15_Witness ==
    /\ pc = "done"
    /\ num_bins >= 3
    /\ EdgeCorrectionFired
    /\ bin_width >= 2

\* C16: the chosen lower extras are the candidates nearest the core: j chosen
\* lower extras are the first j candidates generated outward from lower_end
\* and form a gapless run that ends at lower_end - 1.
C16_LowerExtrasNearestCore ==
    (BinsProduced /\ num_bins >= 3) =>
        LET j == Len(extra_bins_lower)
        IN  /\ {extra_bins_lower[i] : i \in 1..j} = {potential_lowers[i] : i \in 1..j}
            /\ Contiguous(extra_bins_lower)
            /\ j > 0 => High(extra_bins_lower[j]) = lower_end - 1

\* C17: the lower outlier bin ends one below the smallest low of the inner
\* bins (chosen extras and core), the upper outlier bin starts one above
\* their largest high, and neither outlier bin overlaps an inner bin.
C17_OutlierBinsAdjoinInnerBins ==
    (BinsProduced /\ num_bins >= 3 /\ Len(bins) > 2) =>
        LET inner == 2..(Len(bins) - 1)
        IN  /\ High(bins[1]) = SetMin({Low(bins[i]) : i \in inner}) - 1
            /\ Low(bins[Len(bins)]) = SetMax({High(bins[i]) : i \in inner}) + 1
            /\ \A i \in inner : High(bins[1]) < Low(bins[i])
            /\ \A i \in inner : High(bins[i]) < Low(bins[Len(bins)])

\* C18: choose_extra_bins asked for k >= 0 bins returns min(k, size of both
\* pools) bins: it stops only when k are chosen or both pools are empty, and
\* never fails on an empty pool.
C18_ChoosesAsManyAsPossible ==
    c_num_bins >= 0 =>
        /\ c_pc /= "error"
        /\ Len(c_picks) = Len(c_extra_lower) + Len(c_extra_upper)
        /\ c_pc = "returned" =>
              /\ Len(c_picks) = IF c_num_bins <= Len(c_lowers0) + Len(c_uppers0)
                                THEN c_num_bins
                                ELSE Len(c_lowers0) + Len(c_uppers0)
              /\ Len(c_picks) = c_num_bins \/ (Len(c_lowers) = 0 /\ Len(c_uppers) = 0)

C18_Witness ==
    /\ c_pc = "returned"
    /\ c_forced
    /\ Len(c_uppers0) = 0
    /\ Len(c_extra_lower) >= 2

\* C19: in choose_extra_bins the first pick is from the upper pool whenever
\* it is non-empty, and a pick made while both pools are non-empty is from
\* the side opposite to the pick before it.
C19_PicksAlternate ==
    [][(c_pc = "loop" /\ Len(c_picks') = Len(c_picks) + 1) =>
         /\ (Len(c_picks) = 0 /\ Len(c_uppers) > 0) => c_picks'[1] = "upper"
         /\ (Len(c_picks) > 0 /\ Len(c_lowers) > 0 /\ Len(c_uppers) > 0) =>
               c_picks'[Len(c_picks')] /= c_picks[Len(c_picks)]]_vars

C19_Witness ==
    /\ c_picks = <<"upper", "lower", "upper", "lower">>
    /\ Len(c_lowers) > 0
    /\ Len(c_uppers) > 0

\* C20: if diff_bins <= 0 both pools are empty, no extra bin is chosen, and
\* the bin list is the lower outlier bin, all the core bins and the upper
\* outlier bin: bins_within + 2 entries.
C20_NoExtrasWhenCoreSuffices ==
    (BinsProduced /\ diff_bins <= 0) =>
        /\ potential_lowers = <<>>
        /\ potential_uppers = <<>>
        /\ extra_bins_lower = <<>>
        /\ extra_bins_upper = <<>>
        /\ Len(bins) = bins_within + 2
        /\ bins = <<MinBin(min_val, lower_end)>>
                  \o CoreBins(lower_end, bin_width, bins_within)
                  \o <<MaxBin(upper_end_within, max_val)>>

C20_Witness ==
    /\ pc = "done"
    /\ num_bins >= 3
    /\ diff_bins < 0
    /\ bins_within > num_bins - 2
    /\ min_val < lower_end

\* C21: for bin_width >= 1 get_potential_extra_bins returns at most diff_bins
\* candidates per side, each of width bin_width, lower candidates with
\* low > min_val and upper candidates with high < max_val (none contains
\* min_val or max_val), each adjacent to the one before it and the first
\* adjacent to the core edge.
C21_PotentialExtraBins ==
    (BinsProduced /\ bin_width >= 1) =>
        LET most == IF diff_bins > 0 THEN diff_bins ELSE 0
            pl == potential_lowers
            pu == potential_uppers
            Holds(b, v) == Low(b) <= v /\ v <= High(b)
        IN  /\ Len(pl) <= most
            /\ Len(pu) <= most
            /\ \A i \in 1..Len(pl) :
                 /\ High(pl[i]) - Low(pl[i]) + 1 = bin_width
                 /\ Low(pl[i]) > min_val
                 /\ ~Holds(pl[i], min_val) /\ ~Holds(pl[i], max_val)
                 /\ High(pl[i]) + 1 = IF i = 1 THEN lower_end ELSE Low(pl[i - 1])
            /\ \A i \in 1..Len(pu) :
                 /\ High(pu[i]) - Low(pu[i]) + 1 = bin_width
                 /\ High(pu[i]) < max_val
                 /\ ~Holds(pu[i], min_val) /\ ~Holds(pu[i], max_val)
                 /\ Low(pu[i]) = 1 + IF i = 1 THEN upper_end_within ELSE High(pu[i - 1])

C21_Witness ==
    /\ pc = "done"
    /\ bin_width >= 1
    /\ Len(potential_lowers) >= 2
    /\ Len(potential_uppers) >= 2

\* C22: the bin_width used for the layout is w0 = ceil((upper_end - lower_end)
\* / (num_bins - 2)) when w0 <= 1 or (max_val - min_val + 1) / w0 >= num_bins,
\* and w0 - 1 otherwise: the decrement is applied at most once.
C22_FinalBinWidth ==
    BinsProduced =>
        LET w0 == CeilDiv(upper_end - lower_end, num_bins - 2)
        IN  bin_width = IF w0 <= 1 \/ max_val - min_val + 1 >= num_bins * w0
                        THEN w0
                        ELSE w0 - 1

\* one decrement was made although the condition of line 383 still holds
C22_Witness ==
    /\ pc = "done"
    /\ num_bins >= 3
    /\ bin_width = CeilDiv(upper_end - lower_end, num_bins - 2) - 1
    /\ bin_width > 1
    /\ max_val - min_val + 1 < num_bins * bin_width

\* C23: the core consists of bins_within = floor((upper_end - lower_end + 1)
\* / bin_width) bins, the i-th (from 0) being [lower_end + i*bin_width,
\* lower_end + (i+1)*bin_width - 1]; they are pairwise contiguous and start
\* at lower_end.
C23_CoreLayout ==
    (BinsProduced /\ num_bins >= 3) =>
        LET d == upper_end - lower_end + 1
            before == 1 + Len(extra_bins_lower)
            core == SubSeq(bins, before + 1, before + bins_within)
        IN  \* bins_within is the floor of the quotient d / bin_width
            /\ bin_width * bins_within <= d
            /\ d < bin_width * (bins_within + 1)
            /\ Len(bins) = before + bins_within + Len(extra_bins_upper) + 1
            /\ \A i \in 0..(bins_within - 1) :
                 core[i + 1] = <<lower_end + i * bin_width,
                                 lower_end + (i + 1) * bin_width - 1>>
            /\ Contiguous(core)
            /\ bins_within > 0 => Low(core[1]) = lower_end

\* C24: when min_val = lower_end and no lower extra bin is chosen the lower
\* outlier bin is the empty interval [min_val, min_val - 1]; the computation
\* does not fail on it and the count reported for it is 0; likewise for the
\* upper outlier bin [max_val + 1, max_val] when the core ends at max_val.
C24_EmptyOutlierBins ==
    BinsProduced =>
        /\ error = "none"
        /\ (min_val = lower_end /\ extra_bins_lower = <<>>) =>
              /\ bins[1] = <<min_val, min_val - 1>>
              /\ pc = "done" => df_histogram[1].cases = 0
        /\ (upper_end_within = max_val /\ extra_bins_upper = <<>>) =>
              /\ bins[Len(bins)] = <<max_val + 1, max_val>>
              /\ pc = "done" => df_histogram[Len(bins)].cases = 0

C24_Witness ==
    /\ pc = "done"
    /\ bin_width >= 1
    /\ min_val = lower_end
    /\ upper_end_within = max_val
    /\ df_histogram[1] = [range |-> <<min_val, min_val - 1>>, cases |-> 0]
    /\ df_histogram[Len(bins)] = [range |-> <<max_val + 1, max_val>>, cases |-> 0]

\* C25: the chosen upper extras are a prefix of potential_uppers in their
\* original order; in the bin list they form an ascending gapless run that
\* starts at upper_end_within + 1, directly after the last core bin.
C25_UpperExtrasAscendingRun ==
    (BinsProduced /\ num_bins >= 3) =>
        LET k == Len(extra_bins_upper)
            before == 1 + Len(extra_bins_lower) + bins_within
        IN  /\ k <= Len(potential_uppers)
            /\ extra_bins_upper = SubSeq(potential_uppers, 1, k)
            /\ Len(bins) = before + k + 1
            /\ \A i \in 1..k : bins[before + i] = extra_bins_upper[i]
            /\ Contiguous(extra_bins_upper)
            /\ \A i \in 1..(k - 1) : Low(extra_bins_upper[i]) < Low(extra_bins_upper[i + 1])
            /\ k > 0 => Low(extra_bins_upper[1]) = upper_end_within + 1

\* C26: the bin list has 2 + bins_within + min(max(diff_bins, 0),
\* len(potential_lowers) + len(potential_uppers)) entries; so it is longer
\* than num_bins exactly when bins_within > num_bins - 2, and never longer
\* than num_bins when diff_bins >= 0.
C26_BinListLength ==
    BinsProduced =>
        LET wanted == IF diff_bins > 0 THEN diff_bins ELSE 0
            pooled == Len(potential_lowers) + Len(potential_uppers)
            chosen == IF wanted <= pooled THEN wanted ELSE pooled
        IN  /\ Len(bins) = 2 + bins_within + chosen
            /\ (Len(bins) > num_bins) <=> (bins_within > num_bins - 2)
            /\ diff_bins >= 0 => Len(bins) <= num_bins

\* more candidates than wanted: only diff_bins of them are chosen
C26_Witness ==
    /\ pc = "done"
    /\ diff_bins >= 1
    /\ Len(potential_lowers) + Len(potential_uppers) > diff_bins
    /\ Len(bins) = num_bins

\* C27: for bin_width >= 1 the core never extends past the upper quantile:
\* upper_end_within = lower_end + bin_width * bins_within - 1 lies in
\* (upper_end - bin_width, upper_end], so no core bin holds a value above
\* upper_end.
C27_CoreWithinUpperEnd ==
    (BinsProduced /\ bin_width >= 1) =>
        LET before == 1 + Len(extra_bins_lower)
        IN  /\ upper_end_within = lower_end + bin_width * bins_within - 1
            /\ upper_end - bin_width < upper_end_within
            /\ upper_end_within <= upper_end
            /\ Len(bins) >= before + bins_within
            /\ \A i \in 1..bins_within : High(bins[before + i]) <= upper_end

\* the width does not divide the core range: the core stops short of upper_end
C27_Witness ==
    /\ pc = "done"
    /\ bin_width >= 2
    /\ bins_within >= 2
    /\ upper_end_within < upper_end

\* C28: for num_bins >= 3 and upper_end > lower_end the edge correction never
\* drives bin_width to 0: bin_width >= 1 after it, and neither the floor
\* division of line 385 nor the layout divides by zero.
C28_EdgeCorrectionKeepsWidthPositive ==
    (/\ num_bins >= 3
     /\ upper_end > lower_end
     /\ pc \notin {"start", "await_quantiles"}) =>
        /\ bin_width >= 1
        /\ ~div_by_zero
        /\ error \in {"none", "UpstreamQueryError"}

\* the condition of line 383 holds for a width of 1 and the width stays 1
C28_Witness ==
    /\ pc = "done"
    /\ num_bins >= 3
    /\ upper_end > lower_end
    /\ CeilDiv(upper_end - lower_end, num_bins - 2) = 1
    /\ max_val - min_val + 1 < num_bins
    /\ bin_width = 1

\* C29: given min_val <= lower_end <= upper_end <= max_val and bin_width >= 1
\* the lower outlier bin's high is >= min_val - 1 and the upper outlier bin's
\* low is <= max_val + 1; and when an extra bin is chosen on a side the
\* outlier bin on that side is non-empty (low <= high).
C29_OutlierBinsNotInverted ==
    (/\ BinsProduced
     /\ min_val <= lower_end /\ lower_end <= upper_end /\ upper_end <= max_val
     /\ bin_width >= 1) =>
        LET min_bin == bins[1]
            max_bin == bins[Len(bins)]
        IN  /\ High(min_bin) >= min_val - 1
            /\ Low(max_bin) <= max_val + 1
            /\ Len(extra_bins_lower) > 0 => Low(min_bin) <= High(min_bin)
            /\ Len(extra_bins_upper) > 0 => Low(max_bin) <= High(max_bin)

\* extras on both sides, each outlier bin holding exactly one value
C29_Witness ==
    /\ pc = "done"
    /\ bin_width >= 1
    /\ Len(extra_bins_lower) > 0
    /\ Len(extra_bins_upper) > 0
    /\ bins[1] = <<min_val, min_val>>
    /\ bins[Len(bins)] = <<max_val, max_val>>

\* C30: choose_extra_bins never indexes an empty pool, whatever the pools
\* (one or both may be empty) and whatever num_bins (0 and negative too);
\* no bin is chosen twice and every chosen bin comes from the pool of its
\* own side.
C30_NeverIndexesEmptyPool ==
    /\ c_pc /= "error"
    /\ \A i \in 1..Len(c_extra_lower) :
         \E k \in 1..Len(c_lowers0) : c_extra_lower[i] = c_lowers0[k]
    /\ \A i \in 1..Len(c_extra_upper) :
         \E k \in 1..Len(c_uppers0) : c_extra_upper[i] = c_uppers0[k]
    \* what is chosen and what is left make up the pool, each entry once
    /\ c_lowers \o c_extra_lower = c_lowers0
    /\ c_extra_upper \o c_uppers = c_uppers0
    /\ c_num_bins <= 0 => (c_extra_lower = <<>> /\ c_extra_upper = <<>>)

\* the flag asks for a lower bin while the lower pool is empty
C30_Witness ==
    /\ c_pc = "returned"
    /\ Len(c_lowers0) = 0
    /\ Len(c_extra_upper) >= 2
    /\ Len(c_uppers) = 0
    /\ c_num_bins > Len(c_uppers0)

====
